---------------------------- MODULE Spec2Model ----------------------------
(***************************************************************************)
(* The request rate limiter of packages/backend/src/server/api/            *)
(* SkRateLimiterService.ts: the leaky-bucket limiter, the min-interval     *)
(* limiter, the legacy merge of the two, the counter store (Redis GET and  *)
(* SET .. PX) and the commands in flight on each worker's connection.      *)
(*                                                                         *)
(* Numbers.  Times are integers (milliseconds).  A factor is a positive    *)
(* real in the code; here it is a positive integer in units of 1/FactorDen *)
(* (factor = FactorDen is the factor 1).  The two fractional quantities    *)
(* the code derives from it, bucketSize and LimitInfo.remaining, are held  *)
(* in the same unit: remaining = 3 * FactorDen is "3 calls remaining".     *)
(* Counters (c), drip sizes and all reset values are integers as in the    *)
(* code.                                                                   *)
(***************************************************************************)
EXTENDS Integers, Sequences, FiniteSets, TLC

VARIABLES
    now,        \* the clock of the counter store
    skew,       \* skew[w]: how far TimeService.now of worker process w is ahead of it
    disabled,   \* disabled[w]: RateLimiterService.disabled of worker process w
    rules,      \* the rate limits configured for the endpoints being called
    factors,    \* factors[actor]: the rate limit factor of the actor's policy
    store,      \* the counter store: key -> [t, c, exp] (exp: when the record expires)
    conn,       \* conn[w]: commands sent by w that the store has not processed yet (FIFO)
    call,       \* call[w]: the limit() call worker w is executing
    returned,   \* the call that has just returned, in the step that led here (or <<>>)
    errors,     \* the messages written with logger.error
    log         \* the calls returned so far, in order (kept by the sequential driver only)

vars == <<now, skew, disabled, rules, factors, store, conn, call, returned, errors, log>>

----------------------------------------------------------------------------
(* Bounds of the model *)

MaxTime == 3
FactorDen == 2
MaxFactor == 3
MaxCalls == 4
MaxSkew == 2

Workers == {1, 2}
Actors == {"u"}
Factors == 1..MaxFactor

----------------------------------------------------------------------------
(* Arithmetic of the JavaScript Math object, on integers and on quotients *)

Max(a, b) == IF a >= b THEN a ELSE b
Min(a, b) == IF a <= b THEN a ELSE b

\* Math.floor(a / b), b > 0
FloorDiv(a, b) == a \div b

\* Math.ceil(a / b), b > 0
CeilDiv(a, b) == -((-a) \div b)

\* Math.round(a / b), a >= 0, b > 0: halves round up
RoundDiv(a, b) == (2 * a + b) \div (2 * b)

\* an optional property of a JavaScript object is present
Has(obj, field) == field \in DOMAIN obj

----------------------------------------------------------------------------
(* The rate limits (RateLimit and LegacyRateLimit objects) *)

Rules ==
    { [type |-> "bucket", key |-> "b", size |-> 2, dripRate |-> 2],
      [type |-> "bucket", key |-> "d", size |-> 1, dripRate |-> 1, dripSize |-> 2],
      [type |-> "bucket", key |-> "e", size |-> 1],
      [key |-> "m", minInterval |-> 2],
      [type |-> "legacy", key |-> "x", max |-> 2, duration |-> 5],
      [type |-> "legacy", key |-> "l", max |-> 2, duration |-> 3, minInterval |-> 2],
      [type |-> "legacy", key |-> "n", max |-> 2, minInterval |-> 0] }

isLegacyRateLimit(limit) == ~Has(limit, "type") \/ limit.type = "legacy"

\* (mutant) a minInterval of 0 counts as a limit
hasMinLimit_defined(limit) == Has(limit, "minInterval")

\* !!limit.minInterval
hasMinLimit(limit) == Has(limit, "minInterval") /\ limit.minInterval # 0

\* limit.max && limit.duration
hasMaxLimit(limit) ==
    /\ Has(limit, "max") /\ limit.max # 0
    /\ Has(limit, "duration") /\ limit.duration # 0

\* the bucket limit limitLegacy builds from max and duration
legacyBucket(limit) ==
    [type |-> "bucket", key |-> limit.key, size |-> limit.max,
     dripRate |-> RoundDiv(limit.duration, limit.max)]

\* (mutant) the subject is left out of the key
createLimitKey_nosubject(limit, actor, subject) ==
    "rl_" \o actor \o "_" \o limit.key

createLimitKey(limit, actor, subject) ==
    IF subject # ""
        THEN "rl_" \o actor \o "_" \o limit.key \o "_" \o subject
        ELSE "rl_" \o actor \o "_" \o limit.key

----------------------------------------------------------------------------
(* LimitInfo and LimitCounter *)

\* Number.MAX_SAFE_INTEGER (2^53 - 1) is beyond TLC's integers: it is kept as a
\* symbol.  Only the disabled branch of limit() produces it, and nothing computes
\* with it.
MAX_SAFE_INTEGER == "Number.MAX_SAFE_INTEGER"

LimitInfo(blocked, remaining, resetSec, resetMs, fullResetSec, fullResetMs) ==
    [blocked |-> blocked, remaining |-> remaining,
     resetSec |-> resetSec, resetMs |-> resetMs,
     fullResetSec |-> fullResetSec, fullResetMs |-> fullResetMs]

\* what limit() returns when the limiter is disabled
disabledInfo == LimitInfo(FALSE, MAX_SAFE_INTEGER, 0, 0, 0, 0)

\* the counter getLimitCounter returns for a GET response: a missing key
\* (value <<>>) is the counter { t: 0, c: 0 }
getLimitCounter(value) ==
    IF value = <<>> THEN [t |-> 0, c |-> 0] ELSE value[1]

----------------------------------------------------------------------------
(* limitBucket, from the counter it has read to the LimitInfo it returns *)

bucketDripRate(limit) == IF Has(limit, "dripRate") THEN limit.dripRate ELSE 1000
bucketDripSize(limit) == IF Has(limit, "dripSize") THEN limit.dripSize ELSE 1

\* (mutant) the factor is not applied
bucketSize_nofactor(limit, factor) == limit.size * FactorDen

\* limit.size * factor, in units of 1/FactorDen
bucketSize(limit, factor) == limit.size * factor

\* (mutant) the bucket never drips
bucketDrip_none(limit, counter, t) == counter.c

\* "Update drips": the count after the drips since counter.t
bucketDrip(limit, counter, t) ==
    IF counter.c > 0
        THEN LET dripsSinceLastTick ==
                     FloorDiv(t - counter.t, bucketDripRate(limit)) * bucketDripSize(limit)
             IN  Max(counter.c - dripsSinceLastTick, 0)
        ELSE counter.c

\* (mutant) blocked only above the bucket size
bucketBlocked_gt(c, size) == c * FactorDen > size

\* blocked = counter.c >= bucketSize
bucketBlocked(c, size) == c * FactorDen >= size

\* (mutant) the counter keeps the time it was read with
bucketCounter_nostamp(limit, counter, factor, t) ==
    LET c == bucketDrip(limit, counter, t)
    IN  IF bucketBlocked(c, bucketSize(limit, factor))
            THEN [t |-> counter.t, c |-> c]
            ELSE [t |-> counter.t, c |-> c + 1]

\* the counter after the call: incremented and stamped unless blocked
bucketCounter(limit, counter, factor, t) ==
    LET c == bucketDrip(limit, counter, t)
    IN  IF bucketBlocked(c, bucketSize(limit, factor))
            THEN [t |-> counter.t, c |-> c]
            ELSE [t |-> t, c |-> c + 1]

\* (mutant) the remaining capacity is not clamped at 0
bucketRemaining_noclamp(size, c) == size - c * FactorDen

\* remaining = Math.max(bucketSize - counter.c, 0), in units of 1/FactorDen
bucketRemaining(size, c) == Max(size - c * FactorDen, 0)

\* (mutant) the time to the next drip, whatever remains
bucketResetMs_always(limit, remaining, counter, t) ==
    Max(bucketDripRate(limit) - (t - counter.t), 0)

\* (mutant) the hint is one millisecond short
bucketResetMs_short(limit, remaining, counter, t) ==
    IF remaining > 0 THEN 0 ELSE Max(bucketDripRate(limit) - (t - counter.t) - 1, 0)

\* resetMs = remaining > 0 ? 0 : Math.max(dripRate - (now - counter.t), 0)
bucketResetMs(limit, remaining, counter, t) ==
    IF remaining > 0 THEN 0 ELSE Max(bucketDripRate(limit) - (t - counter.t), 0)

\* (mutant) the number of drips is rounded down
bucketFullResetMs_floor(limit, counter) ==
    FloorDiv(counter.c, bucketDripSize(limit)) * bucketDripRate(limit)

\* fullResetMs = Math.ceil(counter.c / dripSize) * dripRate
bucketFullResetMs(limit, counter) ==
    CeilDiv(counter.c, bucketDripSize(limit)) * bucketDripRate(limit)

bucketInfo(limit, counter, factor, t) ==
    LET blocked     == bucketBlocked(bucketDrip(limit, counter, t), bucketSize(limit, factor))
        after       == bucketCounter(limit, counter, factor, t)
        remaining   == bucketRemaining(bucketSize(limit, factor), after.c)
        resetMs     == bucketResetMs(limit, remaining, after, t)
        fullResetMs == bucketFullResetMs(limit, after)
    IN  LimitInfo(blocked, remaining, CeilDiv(resetMs, 1000), resetMs,
                  CeilDiv(fullResetMs, 1000), fullResetMs)

\* (mutant) the value in seconds is handed over
bucketExpirationMs_sec(info) == info.fullResetSec

\* the expiration limitBucket hands to setLimitCounter
bucketExpirationMs(info) == info.fullResetMs

----------------------------------------------------------------------------
(* limitMin, from the counter it has read to the LimitInfo it returns *)

\* maxCalls = Math.max(Math.ceil(factor), 1)
minMaxCalls(factor) == Max(CeilDiv(factor, FactorDen), 1)

\* (mutant) the interval must be exceeded, not reached
minCleared_gt(limit, counter, factor, t) ==
    IF counter.c >= minMaxCalls(factor) /\ t - counter.t > limit.minInterval
        THEN 0
        ELSE counter.c

\* "Update expiration": the count after the lazy reset
minCleared(limit, counter, factor, t) ==
    IF counter.c >= minMaxCalls(factor) /\ t - counter.t >= limit.minInterval
        THEN 0
        ELSE counter.c

minBlocked(c, maxCalls) == c >= maxCalls

minCounter(limit, counter, factor, t) ==
    LET c == minCleared(limit, counter, factor, t)
    IN  IF minBlocked(c, minMaxCalls(factor))
            THEN [t |-> counter.t, c |-> c]
            ELSE [t |-> t, c |-> c + 1]

\* remaining = Math.max(maxCalls - counter.c, 0), a whole number of calls
minRemaining(maxCalls, c) == Max(maxCalls - c, 0)

\* fullResetMs = Math.max(Math.ceil(minInterval - (now - counter.t)), 0);
\* Math.ceil of an integer is that integer
minFullResetMs(limit, counter, t) == Max(limit.minInterval - (t - counter.t), 0)

minInfo(limit, counter, factor, t) ==
    LET blocked     == minBlocked(minCleared(limit, counter, factor, t), minMaxCalls(factor))
        after       == minCounter(limit, counter, factor, t)
        remaining   == minRemaining(minMaxCalls(factor), after.c)
        fullResetMs == minFullResetMs(limit, after, t)
        fullResetSec == CeilDiv(fullResetMs, 1000)
        resetMs     == IF remaining < 1 THEN fullResetMs ELSE 0
        resetSec    == IF remaining < 1 THEN fullResetSec ELSE 0
    IN  LimitInfo(blocked, remaining * FactorDen, resetSec, resetMs,
                  fullResetSec, fullResetMs)

\* (mutant) the expiration limitBucket uses
minExpirationMs_full(info) == info.fullResetMs

\* the expiration limitMin hands to setLimitCounter
minExpirationMs(info) == info.resetMs

----------------------------------------------------------------------------
(* limitLegacy: the sub-limiters it starts and the merge of their results *)

\* the promises limitLegacy pushes, in order
legacyPromises(limit) ==
    (IF hasMinLimit(limit) THEN <<"min">> ELSE <<>>)
        \o (IF hasMaxLimit(limit) THEN <<"bucket">> ELSE <<>>)

\* lim?.remaining ?? 1, the 1 being one call
remainingOr1(lims, i) == IF i <= Len(lims) THEN lims[i].remaining ELSE 1 * FactorDen

\* lim?.field ?? 0
fieldOr0(lims, i, field) == IF i <= Len(lims) THEN lims[i][field] ELSE 0

\* (mutant) only the first result decides
mergeBlocked_first(lims) == Len(lims) >= 1 /\ lims[1].blocked

\* (lim1?.blocked || lim2?.blocked) ?? false
mergeBlocked(lims) == \E i \in 1..Len(lims) : lims[i].blocked

\* the LimitInfo limitLegacy returns for the results [lim1, lim2] of its promises
legacyMerge(lims) ==
    LimitInfo(mergeBlocked(lims),
              Min(remainingOr1(lims, 1), remainingOr1(lims, 2)),
              Max(fieldOr0(lims, 1, "resetSec"), fieldOr0(lims, 2, "resetSec")),
              Max(fieldOr0(lims, 1, "resetMs"), fieldOr0(lims, 2, "resetMs")),
              Max(fieldOr0(lims, 1, "fullResetSec"), fieldOr0(lims, 2, "fullResetSec")),
              Max(fieldOr0(lims, 1, "fullResetMs"), fieldOr0(lims, 2, "fullResetMs")))

----------------------------------------------------------------------------
(* The counter store: Redis GET and SET key value PX ms *)

\* the value a GET of key returns: <<>> for a missing (or expired) key
storeGet(key) ==
    IF key \in DOMAIN store
        THEN <<[t |-> store[key].t, c |-> store[key].c]>>
        ELSE <<>>

\* (mutant) a SET does not lower a stored count
storeSet_max(key, counter, px) ==
    IF px <= 0 \/ (key \in DOMAIN store /\ store[key].c > counter.c)
        THEN store
        ELSE [k \in DOMAIN store \cup {key} |->
                 IF k = key THEN [t |-> counter.t, c |-> counter.c, exp |-> now + px]
                            ELSE store[k]]

\* the store after SET key counter PX px at the current time; Redis rejects an
\* expiration that is not positive (the error setLimitCounter's caller logs)
storeSet(key, counter, px) ==
    IF px <= 0
        THEN store
        ELSE [k \in DOMAIN store \cup {key} |->
                 IF k = key THEN [t |-> counter.t, c |-> counter.c, exp |-> now + px]
                            ELSE store[k]]

\* the store at time t: the records whose expiration has passed are gone
storeAt(t) ==
    LET live == {k \in DOMAIN store : store[k].exp > t}
    IN  [k \in live |-> store[k]]

----------------------------------------------------------------------------
(* The sub-limiters of a call *)

\* the subject of the counter a sub-limiter uses
subject(s) == IF s = "min" THEN "min" ELSE ""

\* the limit a sub-limiter is called with
subLimit(limit, s) ==
    IF s = "bucket" /\ isLegacyRateLimit(limit) THEN legacyBucket(limit) ELSE limit

\* the sub-limiters limit() starts
promisesOf(limit) ==
    IF isLegacyRateLimit(limit) THEN legacyPromises(limit) ELSE <<"bucket">>

----------------------------------------------------------------------------
(* The state after construction *)

Idle == [pc |-> "idle"]

\* an empty store, idle workers and a factor for each actor
Fresh ==
    /\ now = 0
    /\ factors \in [Actors -> Factors]
    /\ store = <<>>
    /\ conn = [w \in Workers |-> <<>>]
    /\ call = [w \in Workers |-> Idle]
    /\ returned = <<>>
    /\ errors = {}
    /\ log = <<>>

\* the clocks of the worker processes agree with the store's
Synced == skew = [w \in Workers |-> 0]

\* the same, with one configured limit and the clocks in step
Start ==
    /\ Fresh
    /\ Synced
    /\ rules \in {{r} : r \in Rules}

Init ==
    /\ Start
    /\ disabled \in [Workers -> BOOLEAN]
    \* a bound of the model: a limit that runs two sub-limiters is called by
    \* one worker (the other one is disabled)
    /\ \A r \in rules : Len(promisesOf(r)) > 1 => \E w \in Workers : disabled[w]

----------------------------------------------------------------------------
(* limit(), limitLegacy(), limitMin() and limitBucket() as steps of a worker *)

\* the GET getLimitCounter sends for sub-limiter s
getCommand(limit, actor, s) ==
    [op |-> "GET", key |-> createLimitKey(subLimit(limit, s), actor, subject(s)), sub |-> s]

\* (mutant) the sub-limiter's name is passed as the subject of the key written
setCommand_subject(limit, actor, s, counter, expirationMs) ==
    [op |-> "SET", key |-> createLimitKey(subLimit(limit, s), actor, s),
     counter |-> counter, px |-> expirationMs,
     sub |-> s, limit |-> limit.key, actor |-> actor]

\* the SET setLimitCounter sends, with what the .catch handler of its caller
\* refers to (the sub-limiter, limit.key and actor)
setCommand(limit, actor, s, counter, expirationMs) ==
    [op |-> "SET", key |-> createLimitKey(subLimit(limit, s), actor, subject(s)),
     counter |-> counter, px |-> expirationMs,
     sub |-> s, limit |-> limit.key, actor |-> actor]

\* a call of limit() by worker w, with the sub-limiters it waits for
newCall(w, limit, actor, factor, ps) ==
    [pc |-> "wait", w |-> w, limit |-> limit, actor |-> actor, factor |-> factor,
     promises |-> ps, sub |-> [s \in {ps[i] : i \in 1..Len(ps)} |-> [st |-> "get"]]]

\* the call as it returns result
returnedCall(c, result) == [c EXCEPT !.pc = "done"] @@ [result |-> result]

\* (mutant) the disabled flag is not looked at
isDisabled_never(w) == FALSE

\* this.disabled, in worker process w
isDisabled(w) == disabled[w]

\* limit() up to its first await: the disabled short-circuit, or the GETs of
\* the sub-limiters it starts (none for a legacy limit without min or max: it
\* returns the merge of no results)
BeginCall(w, limit, actor, factor) ==
    /\ call[w].pc = "idle"
    /\ limit \in rules
    /\ factor = factors[actor]
    /\ IF isDisabled(w)
          THEN /\ returned' = returnedCall(newCall(w, limit, actor, factor, <<>>), disabledInfo)
               /\ UNCHANGED <<call, conn>>
          ELSE LET ps == promisesOf(limit)
               IN  IF ps = <<>>
                      THEN /\ returned' = returnedCall(newCall(w, limit, actor, factor, ps),
                                                       legacyMerge(<<>>))
                           /\ UNCHANGED <<call, conn>>
                      ELSE /\ call' = [call EXCEPT ![w] = newCall(w, limit, actor, factor, ps)]
                           /\ conn' = [conn EXCEPT ![w] =
                                  @ \o [i \in 1..Len(ps) |-> getCommand(limit, actor, ps[i])]]
                           /\ returned' = <<>>
    /\ UNCHANGED <<now, skew, disabled, rules, factors, store, errors>>

\* A worker starts a call once the store has processed the commands of its
\* earlier calls: its connection is FIFO, so the GETs of the new call are
\* answered after them in any case.
Begin(w, limit, actor, factor) ==
    /\ conn[w] = <<>>
    /\ BeginCall(w, limit, actor, factor)

\* the store answers the oldest command of w's connection, a GET
StoreGet(w) ==
    /\ conn[w] # <<>>
    /\ Head(conn[w]).op = "GET"
    /\ LET cmd == Head(conn[w])
       IN  call' = [call EXCEPT ![w].sub[cmd.sub] =
                       [st |-> "got", value |-> storeGet(cmd.key)]]
    /\ conn' = [conn EXCEPT ![w] = Tail(@)]
    /\ returned' = <<>>
    /\ UNCHANGED <<now, skew, disabled, rules, factors, store, errors>>

\* what a sub-limiter computes once its counter has arrived
subEval(limit, s, value, factor, t) ==
    LET lim     == subLimit(limit, s)
        counter == getLimitCounter(value)
        info    == IF s = "min" THEN minInfo(lim, counter, factor, t)
                                ELSE bucketInfo(lim, counter, factor, t)
    IN  [st |-> "done", value |-> value, at |-> t, info |-> info,
         counter |-> IF s = "min" THEN minCounter(lim, counter, factor, t)
                                  ELSE bucketCounter(lim, counter, factor, t),
         expirationMs |-> IF s = "min" THEN minExpirationMs(info)
                                       ELSE bucketExpirationMs(info),
         wrote |-> ~info.blocked]

\* this.timeService.now, read by worker process w
timeNow(w) == now + skew[w]

\* limitMin / limitBucket after the await of getLimitCounter: the decision, the
\* SET of the updated counter unless blocked (sent, not awaited), and, when it
\* is the last sub-limiter to finish, the result limit() returns.  A sub-limiter
\* of a call that Promise.all has already rejected still runs to its end.
Resume(w, s) ==
    /\ call[w].pc \in {"wait", "rejected"}
    /\ s \in DOMAIN call[w].sub
    /\ call[w].sub[s].st = "got"
    /\ LET c    == call[w]
           e    == subEval(c.limit, s, c.sub[s].value, c.factor, timeNow(w))
           subs == [c.sub EXCEPT ![s] = e]
           fin  == \A x \in DOMAIN subs : subs[x].st \in {"done", "failed"}
           lims == [i \in 1..Len(c.promises) |-> subs[c.promises[i]].info]
       IN  /\ call' = [call EXCEPT ![w] = IF fin THEN Idle ELSE [c EXCEPT !.sub = subs]]
           /\ returned' =
                  IF fin /\ c.pc = "wait"
                      THEN returnedCall([c EXCEPT !.sub = subs],
                                        IF isLegacyRateLimit(c.limit) THEN legacyMerge(lims)
                                                                      ELSE e.info)
                      ELSE <<>>
           /\ conn' = [conn EXCEPT ![w] =
                  IF e.wrote
                      THEN Append(@, setCommand(c.limit, c.actor, s, e.counter, e.expirationMs))
                      ELSE @]
    /\ UNCHANGED <<now, skew, disabled, rules, factors, store, errors>>

\* the message the .catch handler of a setLimitCounter call logs
errorMessage(cmd) ==
    "Failed to update limit " \o cmd.limit
        \o (IF cmd.sub = "min" THEN ":min" ELSE "") \o " for " \o cmd.actor

\* (mutant) the rejection of the SET is not caught
catchSetError_uncaught(w, cmd) ==
    [logged |-> {}, thrown |-> [pc |-> "rejected", w |-> w, sub |-> <<>>]]

\* .catch(err => this.logger.error(...)) on the promise of setLimitCounter:
\* the rejection is logged, and nothing is thrown to anyone
catchSetError(w, cmd) ==
    [logged |-> {errorMessage(cmd)}, thrown |-> <<>>]

\* the store processes the oldest command of w's connection, a SET; the reply
\* to a SET with an expiration that is not positive is an error
StoreSet(w) ==
    /\ conn[w] # <<>>
    /\ Head(conn[w]).op = "SET"
    /\ LET cmd == Head(conn[w])
       IN  /\ store' = storeSet(cmd.key, cmd.counter, cmd.px)
           /\ errors' = IF cmd.px <= 0 THEN errors \cup catchSetError(w, cmd).logged
                                       ELSE errors
           /\ returned' = IF cmd.px <= 0 THEN catchSetError(w, cmd).thrown ELSE <<>>
    /\ conn' = [conn EXCEPT ![w] = Tail(@)]
    /\ UNCHANGED <<now, skew, disabled, rules, factors, call>>

\* the oldest command of w's connection, a SET, fails (the store is down, the
\* connection breaks): the record stays as it was
StoreSetFail(w) ==
    /\ conn[w] # <<>>
    /\ Head(conn[w]).op = "SET"
    /\ LET cmd == Head(conn[w])
       IN  /\ errors' = errors \cup catchSetError(w, cmd).logged
           /\ returned' = catchSetError(w, cmd).thrown
    /\ conn' = [conn EXCEPT ![w] = Tail(@)]
    /\ UNCHANGED <<now, skew, disabled, rules, factors, store, call>>

\* the call as limit() rejects
rejectedCall(c) == [c EXCEPT !.pc = "rejected"]

\* (mutant) a failed read is taken for a missing key
getFailed_absent == [st |-> "got", value |-> <<>>]

\* await this.redisClient.get(key) in getLimitCounter when the GET fails: the
\* rejection is not caught, the sub-limiter's promise rejects
getFailed == [st |-> "failed"]

\* the oldest command of w's connection, a GET, fails: the sub-limiter rejects,
\* and with it limitLegacy's Promise.all and limit(), unless they already have
StoreGetFail(w) ==
    /\ conn[w] # <<>>
    /\ Head(conn[w]).op = "GET"
    /\ LET c    == call[w]
           s    == Head(conn[w]).sub
           subs == [c.sub EXCEPT ![s] = getFailed]
           rej  == subs[s].st = "failed"
           fin  == \A x \in DOMAIN subs : subs[x].st \in {"done", "failed"}
       IN  /\ call' = [call EXCEPT ![w] =
                  IF fin THEN Idle
                         ELSE [c EXCEPT !.sub = subs,
                                        !.pc = IF rej THEN "rejected" ELSE @]]
           /\ returned' = IF rej /\ c.pc = "wait"
                              THEN rejectedCall([c EXCEPT !.sub = subs])
                              ELSE <<>>
    /\ conn' = [conn EXCEPT ![w] = Tail(@)]
    /\ UNCHANGED <<now, skew, disabled, rules, factors, store, errors>>

\* a millisecond passes; the store drops the records that expire
Tick ==
    /\ now < MaxTime
    /\ now' = now + 1
    /\ store' = storeAt(now + 1)
    /\ returned' = <<>>
    /\ UNCHANGED <<skew, disabled, rules, factors, conn, call, errors>>

----------------------------------------------------------------------------
(* Workers calling limit() concurrently *)

Call(w) ==
    \E limit \in Rules, actor \in Actors, factor \in Factors :
        Begin(w, limit, actor, factor) /\ UNCHANGED log

Get(w) == StoreGet(w) /\ UNCHANGED log

Continue(w) == \E s \in {"min", "bucket"} : Resume(w, s) /\ UNCHANGED log

Set(w) == StoreSet(w) /\ UNCHANGED log

Clock == Tick /\ UNCHANGED log

Next ==
    \/ \E w \in Workers : Call(w)
    \/ \E w \in Workers : Get(w)
    \/ \E w \in Workers : Continue(w)
    \/ \E w \in Workers : Set(w)
    \/ Clock

Spec == Init /\ [][Next]_vars

----------------------------------------------------------------------------
(* The same workers with the limits of two endpoints configured *)

\* limits whose keys are a prefix of one another, and a legacy limit without
\* minInterval or duration
PairRules ==
    { [key |-> "m", minInterval |-> 2],
      [type |-> "bucket", key |-> "m_min", size |-> 1, dripRate |-> 2],
      [type |-> "bucket", key |-> "m_", size |-> 2, dripRate |-> 1],
      [type |-> "legacy", key |-> "n", max |-> 2, minInterval |-> 0] }

PairInit ==
    /\ Fresh
    /\ Synced
    /\ rules \in {S \in SUBSET PairRules : Cardinality(S) = 2}
    /\ disabled \in [Workers -> BOOLEAN]
    /\ \E w \in Workers : disabled[w]

PairCall(w) ==
    \E limit \in rules, actor \in Actors, factor \in Factors :
        Begin(w, limit, actor, factor) /\ UNCHANGED log

PairNext ==
    \/ \E w \in Workers : PairCall(w)
    \/ \E w \in Workers : Get(w)
    \/ \E w \in Workers : Continue(w)
    \/ \E w \in Workers : Set(w)
    \/ Clock

PairSpec == PairInit /\ [][PairNext]_vars

----------------------------------------------------------------------------
(* Worker processes whose clocks are not in step: each reads its own          *)
(* TimeService.now, the store expires records by its own clock               *)

SkewInit ==
    /\ Fresh
    /\ rules \in {{r} : r \in {q \in Rules : promisesOf(q) = <<"bucket">>}}
    /\ disabled = [w \in Workers |-> FALSE]
    /\ skew \in [Workers -> 0..MaxSkew]
    /\ skew[1] = 0
    /\ \A w \in Workers \ {1} : skew[w] > 0

SkewSpec == SkewInit /\ [][Next]_vars

----------------------------------------------------------------------------
(* The same workers with a store whose commands can fail *)

GetFail(w) == StoreGetFail(w) /\ UNCHANGED log

SetFail(w) == StoreSetFail(w) /\ UNCHANGED log

FaultNext ==
    \/ Next
    \/ \E w \in Workers : GetFail(w)
    \/ \E w \in Workers : SetFail(w)

\* a bound of the model: the failures are explored with one worker calling
\* the store (the other one is disabled)
FaultInit ==
    /\ Start
    /\ disabled \in [Workers -> BOOLEAN]
    /\ \E w \in Workers : disabled[w]

FaultSpec == FaultInit /\ [][FaultNext]_vars

----------------------------------------------------------------------------
(* One caller at a time: a call starts only when every earlier call has       *)
(* returned and every command sent has been processed by the store; the       *)
(* calls are for one limit and one actor (so one factor), and are logged in   *)
(* order, MaxCalls of them at most                                            *)

Quiescent ==
    \A w \in Workers : conn[w] = <<>> /\ call[w].pc = "idle"

Logged == log' = IF returned' # <<>> THEN Append(log, returned') ELSE log

\* (a bound of the model: the worker that serves the first call serves them
\* all; with nothing in flight between the calls, any worker does the same)
SeqCall(w) ==
    /\ Quiescent
    /\ Len(log) < MaxCalls
    /\ log # <<>> => w = log[1].w
    /\ \E limit \in Rules, actor \in Actors, factor \in Factors :
          /\ log # <<>> => actor = log[1].actor /\ limit = log[1].limit
          /\ Begin(w, limit, actor, factor)
    /\ Logged

SeqContinue(w) ==
    /\ \E s \in {"min", "bucket"} : Resume(w, s)
    /\ Logged

\* a bound of the model: the sequences are of calls that run one sub-limiter
SeqInit ==
    /\ Start
    /\ disabled = [w \in Workers |-> FALSE]
    /\ \A r \in rules : Len(promisesOf(r)) <= 1

SeqNext ==
    \/ \E w \in Workers : SeqCall(w)
    \/ \E w \in Workers : Get(w)
    \/ \E w \in Workers : SeqContinue(w)
    \/ \E w \in Workers : Set(w)
    \/ Clock

SeqSpec == SeqInit /\ [][SeqNext]_vars

----------------------------------------------------------------------------
(* One caller at a time whose calls any worker serves: a call starts when     *)
(* every earlier call has returned, while the SETs of the earlier calls, sent *)
(* and not awaited, may still be on their way to the store                    *)

AllReturned == \A w \in Workers : call[w].pc = "idle"

\* (a bound of the model: one call fewer than the sequential driver makes)
CallerCall(w) ==
    /\ AllReturned
    /\ Len(log) < MaxCalls - 1
    /\ \E limit \in Rules, actor \in Actors, factor \in Factors :
          /\ log # <<>> => actor = log[1].actor /\ limit = log[1].limit
          /\ BeginCall(w, limit, actor, factor)
    /\ Logged

\* a bound of the model: the calls are for a limit that runs the bucket limiter
CallerInit ==
    /\ SeqInit
    /\ \A r \in rules : promisesOf(r) = <<"bucket">>

CallerNext ==
    \/ \E w \in Workers : CallerCall(w)
    \/ \E w \in Workers : Get(w)
    \/ \E w \in Workers : SeqContinue(w)
    \/ \E w \in Workers : Set(w)
    \/ Clock

CallerSpec == CallerInit /\ [][CallerNext]_vars

----------------------------------------------------------------------------
(* Reading the log of the sequential driver *)

\* the evaluation of the one sub-limiter of logged call i
Eval(i) == log[i].sub[log[i].promises[1]]

\* the logged calls are calls of limitBucket for a bucket limit
BucketCalls == log # <<>> /\ ~isLegacyRateLimit(log[1].limit)

\* the logged calls are calls of limitMin
MinCalls == log # <<>> /\ log[1].promises = <<"min">>

\* calls j..n were made at one clock value, call j finding no counter
Burst(j, n) ==
    /\ j <= n
    /\ Eval(j).value = <<>>
    /\ \A i \in j..n : Eval(i).at = Eval(j).at

----------------------------------------------------------------------------
(* C1: bucket fill.  For a bucket limit of size N and factor 1, N+1 calls at  *)
(* one clock value starting from an absent counter, each write applied before *)
(* the next read: calls 1..N are not blocked and have remaining N-1, .., 0;   *)
(* call N+1 is blocked with remaining 0.                                      *)

C1_BucketFill ==
    \A j \in 1..Len(log), n \in 1..Len(log) :
        LET N == log[1].limit.size
            k == n - j + 1
        IN  (BucketCalls /\ log[1].factor = FactorDen /\ Burst(j, n) /\ k <= N + 1)
                => /\ log[n].result.blocked = (k = N + 1)
                   /\ log[n].result.remaining = Max(N - k, 0) * FactorDen

C1_Witness ==
    \E j \in 1..Len(log), n \in 1..Len(log) :
        /\ BucketCalls /\ log[1].factor = FactorDen /\ Burst(j, n)
        /\ log[1].limit.size >= 2
        /\ n - j + 1 = log[1].limit.size + 1
        /\ log[n].result.blocked

----------------------------------------------------------------------------
(* C2: disabled short-circuit.  A worker whose disabled flag is set sends no  *)
(* command to the store, and every call of limit() it makes returns           *)
(* blocked = false, remaining = MAX_SAFE_INTEGER and all four resets 0,       *)
(* having run no sub-limiter, whatever the limit, the factor and the store.   *)

C2_DisabledShortCircuit ==
    /\ \A w \in Workers : disabled[w] => conn[w] = <<>> /\ call[w] = Idle
    /\ (returned # <<>> /\ disabled[returned.w])
          => /\ returned.result.blocked = FALSE
             /\ returned.result.remaining = MAX_SAFE_INTEGER
             /\ returned.result.resetSec = 0 /\ returned.result.resetMs = 0
             /\ returned.result.fullResetSec = 0 /\ returned.result.fullResetMs = 0
             /\ returned.sub = <<>>

\* a disabled worker returns while the store holds a counter of the actor
C2_Witness ==
    /\ returned # <<>>
    /\ disabled[returned.w]
    /\ DOMAIN store # {}

----------------------------------------------------------------------------
(* C3: read-only on block.  A call of limit() that returns blocked = true has *)
(* sent no SET: none of its sub-limiters wrote its counter.                   *)

C3_NoWriteOnBlock ==
    (returned # <<>> /\ returned.result.blocked)
        => \A s \in DOMAIN returned.sub : ~returned.sub[s].wrote

----------------------------------------------------------------------------
(* C4: min-interval call allowance.  With factor f the min-interval limiter   *)
(* allows maxCalls = max(ceil(f), 1) calls in one window: from an absent      *)
(* counter, with consecutive calls closer together than minInterval, calls    *)
(* 1..maxCalls are not blocked and call maxCalls+1 is blocked.                *)

C4_MinAllowance ==
    \A j \in 1..Len(log), n \in 1..Len(log) :
        LET maxCalls == Max(CeilDiv(log[1].factor, FactorDen), 1)
            k == n - j + 1
        IN  (/\ MinCalls /\ j <= n /\ Eval(j).value = <<>>
             /\ \A i \in j..(n - 1) : Eval(i + 1).at - Eval(i).at < log[1].limit.minInterval
             /\ k <= maxCalls + 1)
                => Eval(n).info.blocked = (k = maxCalls + 1)

----------------------------------------------------------------------------
(* C5: min-interval lazy reset with factor 1.  The first call on an absent    *)
(* counter is not blocked and stores count 1 at its time t1; every later call *)
(* before t1 + minInterval is blocked; the next call at t1 + minInterval or   *)
(* later is not blocked and leaves the counter at count 1.                    *)

C5_MinLazyReset ==
    \A j \in 1..Len(log), n \in 1..Len(log) :
        LET t1 == Eval(j).at
            I  == log[1].limit.minInterval
        IN  (MinCalls /\ log[1].factor = FactorDen /\ j <= n /\ Eval(j).value = <<>>)
                => /\ ~Eval(j).info.blocked
                   /\ Eval(j).counter = [t |-> t1, c |-> 1]
                   /\ (n > j /\ Eval(n).at < t1 + I)
                          => /\ Eval(n).info.blocked
                             /\ Eval(n).value = <<[t |-> t1, c |-> 1]>>
                   /\ (/\ n > j /\ Eval(n).at >= t1 + I
                       /\ \A i \in (j + 1)..(n - 1) : Eval(i).at < t1 + I)
                          => /\ ~Eval(n).info.blocked
                             /\ Eval(n).counter = [t |-> Eval(n).at, c |-> 1]

\* a first call, a blocked call, and a call exactly minInterval after the first
\* that finds the counter still stored and is not blocked
C5_Witness ==
    /\ MinCalls /\ log[1].factor = FactorDen /\ Len(log) >= 3
    /\ Eval(1).value = <<>>
    /\ Eval(2).info.blocked
    /\ Eval(3).at = Eval(1).at + log[1].limit.minInterval
    /\ Eval(3).value # <<>>
    /\ ~Eval(3).info.blocked

----------------------------------------------------------------------------
(* C6: factor scaling.  A bucket call with factor f has capacity size * f,    *)
(* and a call that is not blocked adds exactly 1 to the count: when size * f  *)
(* is an integer, size * f calls at one clock value from an absent counter    *)
(* are not blocked, and the next one is.                                      *)

C6_FactorScaling ==
    \A j \in 1..Len(log), n \in 1..Len(log) :
        LET scaled == log[1].limit.size * log[1].factor
            cap == scaled \div FactorDen
            k == n - j + 1
        IN  (BucketCalls /\ scaled % FactorDen = 0 /\ Burst(j, n) /\ k <= cap + 1)
                => /\ log[n].result.blocked = (k = cap + 1)
                   /\ Eval(n).counter.c = Min(k, cap)

C6_Witness ==
    \E j \in 1..Len(log), n \in 1..Len(log) :
        /\ BucketCalls /\ Burst(j, n)
        /\ log[1].factor > FactorDen
        /\ (log[1].limit.size * log[1].factor) % FactorDen = 0
        /\ n - j = (log[1].limit.size * log[1].factor) \div FactorDen
        /\ log[n].result.blocked

----------------------------------------------------------------------------
(* C7: bucket decay.  After a blocked bucket call, the next call, made        *)
(* dripRate ms after the blocked one, is not blocked.                         *)

C7_BucketDecay ==
    \A i \in 1..(Len(log) - 1) :
        (/\ log[1].promises = <<"bucket">>
         /\ Eval(i).info.blocked
         /\ Eval(i + 1).at = Eval(i).at + bucketDripRate(subLimit(log[1].limit, "bucket")))
            => ~Eval(i + 1).info.blocked

\* the counter is still stored, with a count at the capacity, when the call
\* after the blocked one reads it
C7_Witness ==
    \E i \in 1..(Len(log) - 1) :
        /\ log[1].promises = <<"bucket">>
        /\ Eval(i).info.blocked
        /\ Eval(i + 1).at = Eval(i).at + bucketDripRate(subLimit(log[1].limit, "bucket"))
        /\ Eval(i + 1).value # <<>>
        /\ Eval(i + 1).value[1].c * FactorDen >= log[1].limit.size * log[1].factor
        /\ ~Eval(i + 1).info.blocked

----------------------------------------------------------------------------
(* C8: legacy merge.  A legacy limit with a truthy minInterval and with max   *)
(* and duration runs the min-interval limiter and a bucket limiter of         *)
(* size = max and dripRate = round(duration / max); the merged result has     *)
(* blocked = either blocked, remaining = the smaller remaining, and each      *)
(* reset value = the larger of the two.                                       *)

----------------------------------------------------------------------------
(* C9: a missing sub-result is non-restrictive.  When a legacy limit runs one *)
(* sub-limiter only, the merged result is the result of that sub-limiter, in  *)
(* all six fields.                                                            *)

C9_MissingNonRestrictive ==
    (/\ returned # <<>>
     /\ ~disabled[returned.w]
     /\ isLegacyRateLimit(returned.limit)
     /\ Len(returned.promises) = 1)
        => returned.result = returned.sub[returned.promises[1]].info

----------------------------------------------------------------------------
(* C10: result invariant.  In every bucket and min-interval evaluation,       *)
(* blocked holds iff the count after decay (bucket) or lazy reset             *)
(* (min-interval), before the increment of this call, is >= the capacity      *)
(* (size * factor, or maxCalls); remaining = max(capacity - count, 0) for the *)
(* count after the increment, if any; remaining is never negative.            *)

C10_ResultInvariant ==
    returned # <<>> =>
        \A s \in DOMAIN returned.sub :
            LET e    == returned.sub[s]
                lim  == subLimit(returned.limit, s)
                f    == returned.factor
                read == IF e.value = <<>> THEN [t |-> 0, c |-> 0] ELSE e.value[1]
                before == IF s = "bucket" THEN bucketDrip(lim, read, e.at)
                                          ELSE minCleared(lim, read, f, e.at)
                \* the capacity, in units of 1/FactorDen
                cap  == IF s = "bucket" THEN lim.size * f
                                        ELSE Max(CeilDiv(f, FactorDen), 1) * FactorDen
            IN  /\ e.info.blocked = (before * FactorDen >= cap)
                /\ e.counter.c = IF e.info.blocked THEN before ELSE before + 1
                /\ e.info.remaining = Max(cap - e.counter.c * FactorDen, 0)
                /\ e.info.remaining >= 0

\* a call that is not blocked takes the count above a fractional capacity
C10_Witness ==
    /\ returned # <<>>
    /\ "bucket" \in DOMAIN returned.sub
    /\ ~returned.sub["bucket"].info.blocked
    /\ returned.sub["bucket"].counter.c * FactorDen
           > subLimit(returned.limit, "bucket").size * returned.factor

----------------------------------------------------------------------------
(* C11: reset is zero when not blocked.  As claimed: every LimitInfo limit()  *)
(* returns with blocked = false has resetMs = 0 and resetSec = 0.             *)

C11_ResetZeroUnblocked ==
    (returned # <<>> /\ ~returned.result.blocked)
        => returned.result.resetMs = 0 /\ returned.result.resetSec = 0

(* C11, amended: every LimitInfo limit() returns with remaining > 0 (or from  *)
(* a disabled limiter) has resetMs = 0 and resetSec = 0, and so has every     *)
(* sub-limiter evaluation with remaining > 0; the call that takes the last    *)
(* remaining capacity is not blocked and carries the time to the next call.   *)

C11_ResetZeroWhileRemaining ==
    returned # <<>> =>
        /\ (disabled[returned.w] \/ returned.result.remaining > 0)
              => returned.result.resetMs = 0 /\ returned.result.resetSec = 0
        /\ \A s \in DOMAIN returned.sub :
              returned.sub[s].info.remaining > 0
                  => /\ returned.sub[s].info.resetMs = 0
                     /\ returned.sub[s].info.resetSec = 0

\* a call that reads a stored counter, is not blocked and leaves capacity
C11_Witness ==
    /\ returned # <<>>
    /\ ~disabled[returned.w]
    /\ "bucket" \in DOMAIN returned.sub
    /\ returned.sub["bucket"].value # <<>>
    /\ ~returned.result.blocked
    /\ returned.result.remaining > 0
    /\ returned.result.resetMs = 0

----------------------------------------------------------------------------
(* C12: key namespacing.  For a legacy limit that runs both sub-limiters, the *)
(* key one sub-limiter writes is not the key the other one reads, and the     *)
(* store processing a SET of one sub-limiter leaves the record of the other   *)
(* one (of the same actor and limit) as it was.                               *)

otherSub(s) == IF s = "min" THEN "bucket" ELSE "min"

C12_KeyNamespacing ==
    [][\A w \in Workers :
          (conn[w] # <<>> /\ Head(conn[w]).op = "SET" /\ conn'[w] = Tail(conn[w]))
              => \A r \in rules, a \in Actors :
                     Len(promisesOf(r)) = 2
                         => LET k == getCommand(r, a, otherSub(Head(conn[w]).sub)).key
                            IN  /\ k # Head(conn[w]).key
                                /\ (k \in DOMAIN store') = (k \in DOMAIN store)
                                /\ k \in DOMAIN store => store'[k] = store[k]]_vars

\* both counters of the actor are stored, and they differ
C12_Witness ==
    \E r \in rules, a \in Actors :
        /\ Len(promisesOf(r)) = 2
        /\ LET kb == getCommand(r, a, "bucket").key
               km == getCommand(r, a, "min").key
           IN  /\ kb \in DOMAIN store /\ km \in DOMAIN store
               /\ store[kb].c # store[km].c

----------------------------------------------------------------------------
(* C13: a write failure is never surfaced.  When the SET of a call fails (the *)
(* store fails it, or rejects its expiration), nothing is thrown to anyone:   *)
(* no call returns or rejects in that step, the calls in progress go on as    *)
(* they were (the LimitInfo the call returned, or will return, is the one     *)
(* computed when the SET was sent), the store keeps the record it had, and    *)
(* the failure is logged with the limit's key and the actor.                  *)

C13_WriteFailureNotSurfaced ==
    [][\A w \in Workers :
          (/\ conn[w] # <<>>
           /\ Head(conn[w]).op = "SET"
           /\ StoreSetFail(w) \/ (StoreSet(w) /\ Head(conn[w]).px <= 0))
              => /\ returned' = <<>>
                 /\ call' = call
                 /\ store' = store
                 /\ errorMessage(Head(conn[w])) \in errors']_vars

\* the write of a bucket call has failed: it is logged, nothing is stored, and
\* no command is in flight
C13_Witness ==
    \E r \in rules, a \in Actors :
        /\ \E j \in 1..Len(promisesOf(r)) : promisesOf(r)[j] = "bucket"
        /\ errorMessage([limit |-> r.key, sub |-> "bucket", actor |-> a]) \in errors
        /\ getCommand(r, a, "bucket").key \notin DOMAIN store
        /\ now = 0
        /\ \A w \in Workers : conn[w] = <<>>

----------------------------------------------------------------------------
(* C14: a read failure propagates.  When the GET of a sub-limiter fails, the  *)
(* call of limit() rejects (in that step, unless it already has): it is not   *)
(* continued as if the counter were absent, and a call one of whose reads     *)
(* failed never returns a LimitInfo.                                          *)

C14_ReadFailurePropagates ==
    /\ [][\A w \in Workers :
             (conn[w] # <<>> /\ Head(conn[w]).op = "GET" /\ StoreGetFail(w))
                 => /\ call[w].pc = "wait"
                          => /\ returned' # <<>>
                             /\ returned'.pc = "rejected"
                             /\ returned'.sub[Head(conn[w]).sub].st = "failed"
                             /\ "result" \notin DOMAIN returned'
                    /\ call'[w] = Idle \/ call'[w].pc = "rejected"]_vars
    /\ [][\A w \in Workers :
             call[w].pc = "rejected"
                 => /\ call'[w] = Idle \/ call'[w].pc = "rejected"
                    /\ returned' = <<>> \/ returned'.w # w]_vars
    /\ [](returned # <<>> /\ "result" \in DOMAIN returned
             => \A s \in DOMAIN returned.sub : returned.sub[s].st = "done")

\* the bucket read of a call with two sub-limiters has failed after the
\* min-interval sub-limiter had finished: the call rejects
C14_Witness ==
    /\ returned # <<>>
    /\ returned.pc = "rejected"
    /\ returned.promises = <<"min", "bucket">>
    /\ returned.sub["min"].st = "done"
    /\ returned.sub["bucket"].st = "failed"

----------------------------------------------------------------------------
(* C15: the accepted lost-update race.  The store applies a SET as it comes:  *)
(* after it the record is the counter of that SET, whatever was stored (last  *)
(* write wins), so of two calls that read the same counter, are both not      *)
(* blocked and both write, one increment is lost; the witness is the state in *)
(* which two calls of a bucket of capacity 1 were both not blocked at one     *)
(* instant, one write stored and the other, equal to it, still to come.       *)

C15_LostUpdate ==
    [][\A w \in Workers :
          (/\ conn[w] # <<>>
           /\ Head(conn[w]).op = "SET"
           /\ Head(conn[w]).px > 0
           /\ StoreSet(w))
              => LET cmd == Head(conn[w])
                 IN  /\ cmd.key \in DOMAIN store'
                     /\ store'[cmd.key].t = cmd.counter.t
                     /\ store'[cmd.key].c = cmd.counter.c
                     /\ \A v \in Workers \ {w} :
                            (/\ conn[v] # <<>>
                             /\ Head(conn[v]).op = "SET"
                             /\ Head(conn[v]).key = cmd.key
                             /\ Head(conn[v]).counter = cmd.counter)
                                => store'[cmd.key].c = Head(conn'[v]).counter.c]_vars

C15_Witness ==
    \E r \in rules, a \in Actors, w \in Workers, v \in Workers :
        /\ ~isLegacyRateLimit(r)
        /\ bucketSize(r, factors[a]) = 1 * FactorDen
        /\ w # v /\ ~disabled[w] /\ ~disabled[v]
        /\ conn[w] = <<>>
        /\ Len(conn[v]) = 1
        /\ conn[v][1].op = "SET"
        /\ conn[v][1].key = createLimitKey(r, a, "")
        /\ conn[v][1].counter = [t |-> now, c |-> 1]
        /\ conn[v][1].key \in DOMAIN store
        /\ store[conn[v][1].key].t = now
        /\ store[conn[v][1].key].c = 1

----------------------------------------------------------------------------
(* C16: the reset hint is sufficient.  When a bucket or min-interval          *)
(* evaluation is blocked at time now with resetMs = r, the call (same actor,  *)
(* limit and factor) made at now + r is not blocked, whatever number of       *)
(* blocked calls were made in between.                                        *)

C16_ResetHintSufficient ==
    \A i \in 1..Len(log), n \in 1..Len(log) :
        (/\ i < n
         /\ Len(log[1].promises) = 1
         /\ Eval(i).info.blocked
         /\ Eval(n).at = Eval(i).at + Eval(i).info.resetMs
         /\ \A k \in (i + 1)..(n - 1) : Eval(k).info.blocked)
            => ~Eval(n).info.blocked

\* a blocked call, a later blocked call before the hinted time, and the call
\* at the hinted time
C16_Witness ==
    \E i \in 1..Len(log), n \in 1..Len(log) :
        /\ i + 1 < n
        /\ Len(log[1].promises) = 1
        /\ Eval(i).info.blocked
        /\ Eval(i).info.resetMs > 1
        /\ Eval(i + 1).at > Eval(i).at
        /\ \A k \in (i + 1)..(n - 1) : Eval(k).info.blocked
        /\ Eval(n).at = Eval(i).at + Eval(i).info.resetMs
        /\ ~Eval(n).info.blocked

----------------------------------------------------------------------------
(* C17: the full reset hint.  As claimed: when a bucket evaluation at time    *)
(* now has fullResetMs = F and no call that is not blocked follows before     *)
(* now + F, the call made at now + F (same actor, limit and factor) sees an   *)
(* empty bucket and returns remaining = size * factor - 1.                    *)

\* the logged calls run the bucket limiter only
OneBucket == log # <<>> /\ log[1].promises = <<"bucket">>

\* call n is made fullResetMs after call i, with blocked calls only in between
AtFullReset(i, n) ==
    /\ i < n
    /\ OneBucket
    /\ Eval(n).at = Eval(i).at + Eval(i).info.fullResetMs
    /\ \A k \in (i + 1)..(n - 1) : Eval(k).info.blocked

\* the count call n finds, after the drips
SeenCount(n) ==
    bucketDrip(subLimit(log[1].limit, "bucket"), getLimitCounter(Eval(n).value), Eval(n).at)

C17_FullResetHint ==
    \A i \in 1..Len(log), n \in 1..Len(log) :
        AtFullReset(i, n)
            => /\ SeenCount(n) = 0
               /\ Eval(n).info.remaining =
                      subLimit(log[1].limit, "bucket").size * log[1].factor - 1 * FactorDen

(* C17, amended: ... the counter as call i leaves it has drained to 0 at      *)
(* now + F, and the call made at now + F sees an empty bucket and returns    *)
(* remaining = max(size * factor - 1, 0).                                     *)

C17_FullResetHintClamped ==
    /\ \A i \in 1..Len(log) :
           OneBucket
               => LET lim  == subLimit(log[1].limit, "bucket")
                      left == IF Eval(i).info.blocked THEN getLimitCounter(Eval(i).value)
                                                      ELSE Eval(i).counter
                  IN  bucketDrip(lim, left, Eval(i).at + Eval(i).info.fullResetMs) = 0
    /\ \A i \in 1..Len(log), n \in 1..Len(log) :
           AtFullReset(i, n)
               => /\ SeenCount(n) = 0
                  /\ Eval(n).info.remaining =
                         Max(subLimit(log[1].limit, "bucket").size * log[1].factor
                                 - 1 * FactorDen, 0)

\* the hint of a blocked evaluation, and the call made when it has elapsed
C17_Witness ==
    \E i \in 1..Len(log), n \in 1..Len(log) :
        /\ AtFullReset(i, n)
        /\ Eval(i).info.blocked
        /\ ~Eval(n).info.blocked
        /\ Eval(n).info.remaining > 0

----------------------------------------------------------------------------
(* C18: persisted TTLs.  A bucket evaluation that is not blocked sends exactly *)
(* one SET, of the updated counter under the bucket key with expiration the    *)
(* fullResetMs it returns; a min-interval evaluation that is not blocked sends *)
(* exactly one SET, of the updated counter under the 'min' key with expiration *)
(* the resetMs it returns; a blocked evaluation sends nothing.                 *)

C18_PersistedTTLs ==
    [][\A w \in Workers, s \in {"min", "bucket"} :
          Resume(w, s)
              => LET e == IF returned' # <<>> THEN returned'.sub[s] ELSE call'[w].sub[s]
                     n == Len(conn[w])
                 IN  IF e.info.blocked
                        THEN conn'[w] = conn[w]
                        ELSE /\ Len(conn'[w]) = n + 1
                             /\ SubSeq(conn'[w], 1, n) = conn[w]
                             /\ conn'[w][n + 1].op = "SET"
                             /\ conn'[w][n + 1].counter = e.counter
                             /\ e.counter.t = now
                             /\ conn'[w][n + 1].key =
                                    "rl_" \o call[w].actor \o "_" \o call[w].limit.key
                                        \o (IF s = "min" THEN "_min" ELSE "")
                             /\ conn'[w][n + 1].px =
                                    IF s = "min" THEN e.info.resetMs
                                                 ELSE e.info.fullResetMs]_vars

\* a min-interval call whose resetMs (0) is not its fullResetMs has sent its SET
C18_Witness ==
    /\ returned # <<>>
    /\ "min" \in DOMAIN returned.sub
    /\ ~returned.sub["min"].info.blocked
    /\ returned.sub["min"].info.resetMs # returned.sub["min"].info.fullResetMs
    /\ conn[returned.w] # <<>>
    /\ conn[returned.w][Len(conn[returned.w])].sub = "min"
    /\ conn[returned.w][Len(conn[returned.w])].px = returned.sub["min"].info.resetMs

----------------------------------------------------------------------------
(* C19: the expiry of a bucket counter is unobservable.  A stored bucket      *)
(* record expires no earlier than the time at which its count has drained to  *)
(* 0, and every call returns the LimitInfo and leaves the counter it would    *)
(* with a store that never expires a record, i.e. computed from the counter   *)
(* the last call that was not blocked wrote, however long ago.                *)

\* the logged calls before call n that were not blocked
Writers(n) == {j \in 1..(n - 1) : ~Eval(j).info.blocked}

\* the counter a store without expiry holds when call n reads
Kept(n) ==
    IF Writers(n) = {}
        THEN [t |-> 0, c |-> 0]
        ELSE Eval(CHOOSE j \in Writers(n) : \A i \in Writers(n) : i <= j).counter

C19_ExpiryUnobservable ==
    /\ \A r \in rules, a \in Actors :
           LET lim == subLimit(r, "bucket")
               k   == createLimitKey(lim, a, "")
           IN  (promisesOf(r) = <<"bucket">> /\ k \in DOMAIN store)
                   => /\ store[k].exp >= store[k].t + bucketFullResetMs(lim, store[k])
                      /\ bucketDrip(lim, store[k], store[k].exp) = 0
    /\ \A n \in 1..Len(log) :
           OneBucket
               => LET lim == subLimit(log[1].limit, "bucket")
                      f   == log[1].factor
                  IN  /\ Eval(n).info = bucketInfo(lim, Kept(n), f, Eval(n).at)
                      /\ Eval(n).counter = bucketCounter(lim, Kept(n), f, Eval(n).at)

\* a call finds the record of an earlier call expired, after a call that found
\* it stored
C19_Witness ==
    \E n \in 2..Len(log) :
        /\ OneBucket
        /\ Eval(n - 1).value # <<>>
        /\ Writers(n) # {}
        /\ Eval(n).value = <<>>

----------------------------------------------------------------------------
(* C20: read-your-own-write for a sequential caller.  As claimed: a call      *)
(* issued after an earlier call (same actor and limit) has returned reads the *)
(* counter that earlier call wrote (or nothing, once its expiration has       *)
(* passed), whichever worker serves it.                                       *)

\* the last logged call before call n that was not blocked
LastWriter(n) == CHOOSE j \in Writers(n) : \A i \in Writers(n) : i <= j

\* call n has read what call j wrote: its counter, or nothing once it expired
ReadsWriteOf(n, j) ==
    \/ Eval(n).value = <<Eval(j).counter>>
    \/ /\ Eval(n).value = <<>>
       /\ Eval(n).at >= Eval(j).at + Eval(j).expirationMs

C20_ReadYourWrite ==
    \A n \in 1..Len(log) :
        (OneBucket /\ Writers(n) # {}) => ReadsWriteOf(n, LastWriter(n))

(* C20, amended: a call for a bucket limit issued after the earlier calls     *)
(* (same actor and limit) have returned reads the counter the last of them    *)
(* wrote (or nothing, once its expiration has passed) when it and the calls   *)
(* that wrote the counter are served by one worker, whose commands the store  *)
(* processes in the order sent.                                               *)

C20_ReadYourWriteSameWorker ==
    \A n \in 1..Len(log) :
        (/\ OneBucket
         /\ Writers(n) # {}
         /\ \A j \in Writers(n) : log[j].w = log[n].w)
            => ReadsWriteOf(n, LastWriter(n))

\* the calls of one worker: the last one has read, at the clock value of the
\* call before it, the counter that call wrote, and has sent its own SET
C20_Witness ==
    \E n \in 2..Len(log) :
        /\ OneBucket
        /\ \A j \in 1..n : log[j].w = log[n].w
        /\ ~Eval(n - 1).info.blocked
        /\ Eval(n).value = <<Eval(n - 1).counter>>
        /\ Len(log) = n
        /\ Len(conn[log[n].w]) = 1
        /\ conn[log[n].w][1].counter = Eval(n).counter
        /\ now = Eval(n - 1).at

----------------------------------------------------------------------------
(* C21: store key injectivity.  Two different (actor, rule key, subcategory)  *)
(* triples have different store keys: the store processing a SET of one call  *)
(* writes a key that no sub-limiter of another configured rule or actor uses, *)
(* and leaves the record of every other triple as it was.                     *)

C21_KeyInjectivity ==
    [][\A w \in Workers :
          (conn[w] # <<>> /\ Head(conn[w]).op = "SET" /\ conn'[w] = Tail(conn[w]))
              => \A r \in rules, a \in Actors :
                     \A j \in 1..Len(promisesOf(r)) :
                         LET cmd == Head(conn[w])
                             s == promisesOf(r)[j]
                             k == getCommand(r, a, s).key
                         IN  <<a, r.key, subject(s)>> # <<cmd.actor, cmd.limit, subject(cmd.sub)>>
                                 => /\ k # cmd.key
                                    /\ (k \in DOMAIN store') = (k \in DOMAIN store)
                                    /\ k \in DOMAIN store => store'[k] = store[k]]_vars

----------------------------------------------------------------------------
(* C22: stored bucket counter bounds.  Over sequential calls of one bucket    *)
(* limit with one factor, size*factor an integer >= 1, each write applied     *)
(* before the next read: every counter a call writes, every SET on its way    *)
(* and every record in the store has 1 <= c <= size*factor and t equal to the *)
(* clock value of the call that wrote it.                                     *)

\* size*factor of the logged calls is an integer >= 1
WholeCap ==
    LET scaled == bucketSize(subLimit(log[1].limit, "bucket"), log[1].factor)
    IN  scaled % FactorDen = 0 /\ scaled >= FactorDen

\* the counter is within the capacity of the logged calls
InCap(counter) ==
    /\ 1 <= counter.c
    /\ counter.c * FactorDen <= bucketSize(subLimit(log[1].limit, "bucket"), log[1].factor)

\* the counter is the one written by a logged call, stamped with its clock value
WrittenBy(counter) ==
    \E n \in 1..Len(log) :
        /\ Eval(n).wrote
        /\ Eval(n).counter = counter
        /\ counter.t = Eval(n).at

C22_StoredCounterBounds ==
    (OneBucket /\ WholeCap)
        => /\ \A n \in 1..Len(log) :
                  Eval(n).wrote => InCap(Eval(n).counter) /\ Eval(n).counter.t = Eval(n).at
           /\ \A w \in Workers : \A i \in 1..Len(conn[w]) :
                  conn[w][i].op = "SET"
                      => InCap(conn[w][i].counter) /\ WrittenBy(conn[w][i].counter)
           /\ \A k \in DOMAIN store :
                  InCap(store[k]) /\ WrittenBy([t |-> store[k].t, c |-> store[k].c])

\* a full bucket is stored by a call made after the clock has moved, which
\* found the record of an earlier call and a drip since
C22_Witness ==
    \E n \in 2..Len(log), k \in DOMAIN store :
        /\ OneBucket /\ WholeCap
        /\ Eval(n).wrote
        /\ Eval(n).value # <<>>
        /\ Eval(n).at > Eval(n).value[1].t
        /\ SeenCount(n) < Eval(n).value[1].c
        /\ store[k].c >= 2
        /\ store[k].c * FactorDen = bucketSize(subLimit(log[1].limit, "bucket"), log[1].factor)
        /\ [t |-> store[k].t, c |-> store[k].c] = Eval(n).counter

----------------------------------------------------------------------------
(* C23: decay never increases the count.  Whatever clock value the worker     *)
(* that evaluates a bucket call reads, a value before the counter's timestamp *)
(* included, the count after the "update drips" step of the call is at most   *)
(* the count of the counter it read.                                          *)

C23_DecayNeverIncreases ==
    (returned # <<>> /\ returned.promises = <<"bucket">>)
        => LET e    == returned.sub["bucket"]
               read == getLimitCounter(e.value)
               lim  == subLimit(returned.limit, "bucket")
           IN  bucketDrip(lim, read, e.at) <= read.c

----------------------------------------------------------------------------
(* C24: legacy rule with no effective limit.  A limit call for a legacy rule  *)
(* that has neither a truthy minInterval nor both max and duration, served by *)
(* a worker that is not disabled, sends no GET and no SET, leaves the store   *)
(* as it is, and returns blocked = false, remaining = 1 and the four reset    *)
(* values 0.                                                                  *)

\* a legacy rule with neither a truthy minInterval nor both max and duration
NoEffectiveLimit(limit) ==
    /\ isLegacyRateLimit(limit)
    /\ ~(Has(limit, "minInterval") /\ limit.minInterval # 0)
    /\ ~(Has(limit, "max") /\ Has(limit, "duration"))

\* the keys of the counters of a rule
KeysOf(limit) == {createLimitKey(limit, a, sj) : a \in Actors, sj \in {"", "min"}}

C24_NoEffectiveLimit ==
    [][/\ \A w \in Workers, limit \in rules :
             (/\ NoEffectiveLimit(limit) /\ ~disabled[w]
              /\ call[w].pc = "idle" /\ returned' # <<>>
              /\ returned'.w = w /\ returned'.limit = limit)
                 => /\ conn' = conn /\ store' = store /\ call' = call
                    /\ returned'.sub = <<>>
                    /\ returned'.result = LimitInfo(FALSE, 1 * FactorDen, 0, 0, 0, 0)
       /\ \A limit \in rules :
             NoEffectiveLimit(limit)
                 => /\ \A w \in Workers : call'[w].pc # "idle" => call'[w].limit # limit
                    /\ \A w \in Workers : \A i \in 1..Len(conn'[w]) :
                           conn'[w][i].key \notin KeysOf(limit)
                    /\ DOMAIN store' \cap KeysOf(limit) = {}]_vars

\* the call returns while the store holds a counter of the other rule
C24_Witness ==
    /\ returned # <<>>
    /\ ~disabled[returned.w]
    /\ NoEffectiveLimit(returned.limit)
    /\ returned.result.remaining = 1 * FactorDen
    /\ DOMAIN store # {}

=============================================================================
